---- MODULE Spec2Model ----
(***************************************************************************)
(* Proximity matching and colour assignment of neighborneighbor.           *)
(*                                                                         *)
(* Coordinates are fixed-point: one unit is 0.001 degree, so the literal   *)
(* 0.01 of the matcher is 10 units.  Distances are compared squared        *)
(* (sqrt(x) < r  <=>  x < r*r for r > 0 and x >= 0), which keeps the       *)
(* planar Euclidean test exact on the grid.  Floating-point rounding of    *)
(* Math.sqrt/Math.pow is not modelled.                                     *)
(***************************************************************************)
EXTENDS FiniteSets, Integers, Sequences, TLC

VARIABLES
    cityKeys,            \* CityMaps props: <<city1Key, city2Key>>
    city1HoverPoint,     \* Signal<[number, number] | null>
    city2HoverPoint,
    pairings,            \* Signal<LocationPairing[]>
    city1MatchedPoints,  \* useComputed result shown on map 1
    city2MatchedPoints,  \* useComputed result shown on map 2
    isLoading,
    error,
    inFlight,            \* fetchPairings calls between their start and their completion
    fetchedTotal,        \* data.length of the latest array response
    lastHoverPos1,       \* lastHoverPos in the mousemove closure of map 1
    lastHoverPos2,       \* lastHoverPos in the mousemove closure of map 2
    mHover, mPairings, mSource, mTarget,   \* the arguments of one matcher invocation
    mDone, mResult,                        \* whether it has returned, and what
    mThrew,                                \* whether it ended in a TypeError instead
    mMaxDistance, mWithin,                 \* a radius argument, and the result under it
    coords1, coords2,                      \* the arguments of one getPairingColor call
    colorDone, color,                      \* whether it has returned, and what
    pValue, pDone, pAccepted,              \* the argument of one isLocationPoint call,
                                           \* whether it has returned, and what
    kv,                  \* Deno KV under the prefix "pairings": id -> stored pairing
    now,                 \* new Date().getTime() on the server
    lastStatus, lastBody,  \* the latest POST request body and the status answered
    hCursor,             \* the position of the latest mousemove on a map, in 0.0001 degree
    hPrevHoverPos,       \* lastHoverPos as that mousemove found it
    hReported,           \* whether that mousemove called onPointHover
    hLastHoverPos,       \* lastHoverPos of the map
    hHoverPoint,  \* the hover point CityMaps holds for the map
    pcKeys,              \* PairingControls props: <<city1.key, city2.key>>
    city1Point,          \* Signal<[number, number] | null>: the point selected on map 1
    city2Point,
    autoPairEnabled,
    selectionCount,      \* map clicks so far: tells one pair of selections from the next
    pcInFlight,          \* create requests sent and not yet answered
    pcOutcome,           \* how the latest handlePairLocations call ended
    pcCallbackCalled,  \* whether it called onPairingCreated
    dlPairings,         \* PairingList: the displayed list of {id, pairing} entries
    dlIsDeleting,       \* DeleteButton: isDeleting of the button of each id
    dlOutcome,          \* how the latest handleDelete call ended
    dlLastId,  \* the id of the latest handleDelete call
    fcStarted,          \* CityMaps: fetchPairings calls begun so far, numbered in order
    fcPending,          \* the calls still awaiting their response
    fcShown,  \* the call whose outcome was written to pairings last
    orphaned,  \* CityMapWrapper: fetchPairings calls of unmounted CityMaps in flight
    mapInstance,        \* Map: whether mapInstanceRef.current holds the Leaflet map
    matchedPoints,      \* the value of the matchedPoints signal handed to the Map
    matchedMarkers,     \* matchedMarkersRef.current: the matched markers on the map
    pendingImports      \* the points captured by each import("leaflet") not yet resolved

cityVars  == <<cityKeys, city1HoverPoint, city2HoverPoint, pairings,
               city1MatchedPoints, city2MatchedPoints, isLoading, error, inFlight,
               fetchedTotal, lastHoverPos1, lastHoverPos2>>
matchVars == <<mHover, mPairings, mSource, mTarget, mDone, mResult, mThrew,
               mMaxDistance, mWithin>>
colorVars == <<coords1, coords2, colorDone, color>>
pointVars == <<pValue, pDone, pAccepted>>
apiVars   == <<kv, now, lastStatus, lastBody>>
hoverVars == <<hCursor, hPrevHoverPos, hReported, hLastHoverPos, hHoverPoint>>
pairVars == <<pcKeys, city1Point, city2Point, autoPairEnabled, selectionCount,
               pcInFlight, pcOutcome, pcCallbackCalled>>
deleteVars == <<dlPairings, dlIsDeleting, dlOutcome, dlLastId>>
fetchVars == <<fcStarted, fcPending, fcShown>>
wrapVars == <<orphaned>>
markerVars == <<mapInstance, matchedPoints, matchedMarkers, pendingImports>>
vars      == <<cityVars, matchVars, colorVars, pointVars, apiVars,
               hoverVars,
               pairVars,
               deleteVars,
               fetchVars,
               wrapVars,
               markerVars>>

----------------------------------------------------------------------------
(* Bounds *)

MaxPairings == 2     \* longest pairing list a response or an invocation carries
MaxInFlight == 2     \* overlapping fetchPairings calls

----------------------------------------------------------------------------
(* JavaScript values *)

\* null / an absent hover point; a present point is <<lat, lng>>
Null == <<>>

\* an element of a coordinates array: its typeof, whether it is a finite
\* number, NaN, an infinity or no number at all, and its value when finite
Num(n) == [t |-> "number", kind |-> "finite", v |-> n]
NotNum == [t |-> "string", kind |-> "none", v |-> 0]
NaN == [t |-> "number", kind |-> "NaN", v |-> 0]
Infinity == [t |-> "number", kind |-> "Infinity", v |-> 0]

\* the value of a property that is not there
Undefined ==
    [type |-> "undefined", hasCity |-> FALSE, hasCoordinates |-> FALSE,
     isArray |-> FALSE, coordinates |-> <<>>]

\* a string property such as createdAt
StringValue ==
    [type |-> "string", hasCity |-> FALSE, hasCoordinates |-> FALSE,
     isArray |-> FALSE, coordinates |-> <<>>]

LocationPoint(c) ==
    [type |-> "object", hasCity |-> TRUE, hasCoordinates |-> TRUE,
     isArray |-> TRUE, coordinates |-> <<Num(c[1]), Num(c[2])>>]

\* an object with a city label and a coordinates array of the wrong shape
BadPoint ==
    [type |-> "object", hasCity |-> TRUE, hasCoordinates |-> TRUE,
     isArray |-> TRUE, coordinates |-> <<Num(47606)>>]

isLocationPoint(value) ==
    /\ value.type = "object"
    /\ value.hasCity
    /\ value.hasCoordinates
    /\ value.isArray
    /\ Len(value.coordinates) = 2
    /\ value.coordinates[1].t = "number"
    /\ value.coordinates[2].t = "number"

\* null
NullValue ==
    [type |-> "null", hasCity |-> FALSE, hasCoordinates |-> FALSE,
     isArray |-> FALSE, coordinates |-> <<>>]

\* an object with a coordinates array of two numbers and no city property
NoCityPoint ==
    [type |-> "object", hasCity |-> FALSE, hasCoordinates |-> TRUE,
     isArray |-> TRUE, coordinates |-> <<Num(47606), Num(-122332)>>]

\* a request that has not been made
NoBody == [kind |-> "none", fields |-> <<>>]

\* no isLocationPoint call and no request under way
PointIdle == pValue = Undefined /\ pDone = FALSE /\ pAccepted = FALSE
HoverIdle ==
    /\ hCursor = Null /\ hPrevHoverPos = Null /\ hReported = FALSE
    /\ hLastHoverPos = Null /\ hHoverPoint = Null
PairIdle ==
    /\ pcKeys = <<"seattle", "portland">>
    /\ city1Point = Null /\ city2Point = Null /\ autoPairEnabled = FALSE
    /\ selectionCount = 0 /\ pcInFlight = <<>>
    /\ pcOutcome = "none" /\ pcCallbackCalled = FALSE
DeleteIdle == dlPairings = <<>> /\ dlIsDeleting = <<>> /\ dlOutcome = "none" /\ dlLastId = 0
FetchIdle == fcStarted = 0 /\ fcPending = {} /\ fcShown = 0
WrapIdle == orphaned = 0
MarkerIdle == mapInstance = FALSE /\ matchedPoints = <<>> /\ matchedMarkers = <<>> /\ pendingImports = <<>>
ApiIdle == kv = <<>> /\ now = 1 /\ lastStatus = 0 /\ lastBody = NoBody

\* pairing[key]: undefined when the pairing has no such property
Prop(pairing, key) ==
    IF key \in DOMAIN pairing THEN pairing[key] ELSE Undefined

Coordinates(point) == <<point.coordinates[1].v, point.coordinates[2].v>>

----------------------------------------------------------------------------
(* The matcher *)

\* the literal 0.01 of `distance < 0.01`
NearbyRadius == 10

Square(n) == n * n

\* Math.pow(plat - hlat, 2) + Math.pow(plng - hlng, 2)
distanceSquared(p, h) == Square(p[1] - h[1]) + Square(p[2] - h[2])

\* mutant: the boundary counts as near (<= in place of <)
isNearby_Inclusive(p, h) == distanceSquared(p, h) <= Square(NearbyRadius)

\* Math.sqrt(...) < 0.01
isNearby(p, h) == distanceSquared(p, h) < Square(NearbyRadius)

\* the first .filter callback
sourceFilter(pairing, sourceCity, hoverPoint) ==
    LET sourcePoint == Prop(pairing, sourceCity)
    IN  IF ~isLocationPoint(sourcePoint) THEN FALSE
        ELSE isNearby(Coordinates(sourcePoint), hoverPoint)

\* the .map callback
targetMap(pairing, targetCity) ==
    LET targetPoint == Prop(pairing, targetCity)
    IN  IF isLocationPoint(targetPoint) THEN Coordinates(targetPoint) ELSE Null

\* the elements of s at the indices I, in order
SubSeqAt(s, I) ==
    [k \in 1..Cardinality(I) |->
        s[CHOOSE i \in I : Cardinality({j \in I : j < i}) = k - 1]]

\* mutant: without a hover point every pairing's target is shown
useMatchedCityPoints_NoHoverGuard(hoverPoint, pairingList, sourceCity, targetCity) ==
    IF Len(pairingList) = 0 THEN <<>>
    ELSE LET near   == SelectSeq(pairingList,
                           LAMBDA p: hoverPoint = Null
                                     \/ sourceFilter(p, sourceCity, hoverPoint))
             mapped == [i \in 1..Len(near) |-> targetMap(near[i], targetCity)]
         IN  SelectSeq(mapped, LAMBDA c: c # Null)

\* mutant: the map step reads the source role, not the target role
useMatchedCityPoints_SourceCoords(hoverPoint, pairingList, sourceCity, targetCity) ==
    IF hoverPoint = Null \/ Len(pairingList) = 0 THEN <<>>
    ELSE LET near   == SelectSeq(pairingList,
                           LAMBDA p: sourceFilter(p, sourceCity, hoverPoint))
             mapped == [i \in 1..Len(near) |-> targetMap(near[i], sourceCity)]
         IN  SelectSeq(mapped, LAMBDA c: c # Null)

\* mutant: equal coordinates are emitted once
useMatchedCityPoints_Dedup(hoverPoint, pairingList, sourceCity, targetCity) ==
    IF hoverPoint = Null \/ Len(pairingList) = 0 THEN <<>>
    ELSE LET near   == SelectSeq(pairingList,
                           LAMBDA p: sourceFilter(p, sourceCity, hoverPoint))
             mapped == [i \in 1..Len(near) |-> targetMap(near[i], targetCity)]
             found  == SelectSeq(mapped, LAMBDA c: c # Null)
         IN  SubSeqAt(found, {i \in 1..Len(found) :
                                 \A j \in 1..(i - 1) : found[j] # found[i]})

\* mutant: the final filter that drops unresolved targets is missing
useMatchedCityPoints_KeepNull(hoverPoint, pairingList, sourceCity, targetCity) ==
    IF hoverPoint = Null \/ Len(pairingList) = 0 THEN <<>>
    ELSE LET near   == SelectSeq(pairingList,
                           LAMBDA p: sourceFilter(p, sourceCity, hoverPoint))
         IN  [i \in 1..Len(near) |-> targetMap(near[i], targetCity)]

\* mutant: the scan of the list ends at the first pairing that is not near
useMatchedCityPoints_StopAtFar(hoverPoint, pairingList, sourceCity, targetCity) ==
    IF hoverPoint = Null \/ Len(pairingList) = 0 THEN <<>>
    ELSE LET ahead  == {i \in 1..Len(pairingList) :
                           \A j \in 1..i : sourceFilter(pairingList[j], sourceCity, hoverPoint)}
             near   == SubSeqAt(pairingList, ahead)
             mapped == [i \in 1..Len(near) |-> targetMap(near[i], targetCity)]
         IN  SelectSeq(mapped, LAMBDA c: c # Null)

useMatchedCityPoints(hoverPoint, pairingList, sourceCity, targetCity) ==
    IF hoverPoint = Null \/ Len(pairingList) = 0 THEN <<>>
    ELSE LET near   == SelectSeq(pairingList,
                           LAMBDA p: sourceFilter(p, sourceCity, hoverPoint))
             mapped == [i \in 1..Len(near) |-> targetMap(near[i], targetCity)]
         IN  SelectSeq(mapped, LAMBDA c: c # Null)

----------------------------------------------------------------------------
(* Colour assignment (utils/colors.ts)                                      *)
(* getColorFromCoordinates takes its arguments in units of 1/2000 degree,   *)
(* the grid on which the midpoint and the offset of getPairingColor fall.   *)

\* the `%` of JavaScript: the result takes the sign of the dividend
JsMod(a, b) == IF a >= 0 THEN a % b ELSE -((-a) % b)

Abs(n) == IF n >= 0 THEN n ELSE -n

\* `hsl(${hue}, ${saturation}%, ${lightness}%)`
hsl(hue, saturation, lightness) ==
    [hue |-> hue, saturation |-> saturation, lightness |-> lightness]

\* mutant: the amplified values are not wrapped into [0, 1)
getColorFromCoordinates_NoWrap(lat, lng) ==
    LET amplifiedLat720  == lat + 180000
        amplifiedLng1440 == lng + 360000
        hue        == amplifiedLng1440 \div 4
        saturation == 70 + (amplifiedLat720 \div 24)
        lightness  == 50 + (JsMod(2 * amplifiedLat720 + amplifiedLng1440, 1440) \div 72)
    IN  hsl(hue, saturation, lightness)

\* normalizedLat * 500 = (lat + 90) / 180 * 500 = (lat2000 + 180000) / 720, so
\* amplifiedLat = JsMod(lat2000 + 180000, 720) / 720; likewise
\* amplifiedLng = JsMod(lng2000 + 360000, 1440) / 1440.
getColorFromCoordinates(lat, lng) ==
    LET amplifiedLat720  == JsMod(lat + 180000, 720)
        amplifiedLng1440 == JsMod(lng + 360000, 1440)
        \* Math.floor(amplifiedLng * 360)
        hue        == amplifiedLng1440 \div 4
        \* Math.floor(70 + amplifiedLat * 30)
        saturation == 70 + (amplifiedLat720 \div 24)
        \* Math.floor(50 + ((amplifiedLat + amplifiedLng) % 1) * 20)
        lightness  == 50 + (JsMod(2 * amplifiedLat720 + amplifiedLng1440, 1440) \div 72)
    IN  hsl(hue, saturation, lightness)

\* mutant: the differences keep their sign (no Math.abs)
getPairingColor_Signed(c1, c2) ==
    LET midLat    == c1[1] + c2[1]
        midLng    == c1[2] + c2[2]
        latDiff   == c1[1] - c2[1]
        lngDiff   == c1[2] - c2[2]
        offsetLat == midLat + 5 * JsMod(latDiff, 400)
        offsetLng == midLng + 5 * JsMod(lngDiff, 400)
    IN  getColorFromCoordinates(offsetLat, offsetLng)

\* c1, c2 in units of 0.001 degree.  midLat = (c1 + c2) / 2 is c1 + c2 in units
\* of 1/2000 degree; (latDiff * 2.5) % 1 degree is 5 * (latDiff % 400) of them.
getPairingColor(c1, c2) ==
    LET midLat    == c1[1] + c2[1]
        midLng    == c1[2] + c2[2]
        latDiff   == Abs(c1[1] - c2[1])
        lngDiff   == Abs(c1[2] - c2[2])
        offsetLat == midLat + 5 * JsMod(latDiff, 400)
        offsetLng == midLng + 5 * JsMod(lngDiff, 400)
    IN  getColorFromCoordinates(offsetLat, offsetLng)

----------------------------------------------------------------------------
(* Where an invocation of the matcher can end in a TypeError               *)

\* `const [plat, plng] = value.coordinates` completes: value has a coordinates
\* property holding an array (undefined.coordinates and the destructuring of
\* undefined or of a non-iterable both throw)
Destructurable(value) ==
    value.type = "object" /\ value.hasCoordinates /\ value.isArray

\* `value.coordinates` can be read: value is neither undefined nor null
Dereferenceable(value) == value.type \notin {"undefined", "null"}

\* mutant: the filter callback destructures without asking isLocationPoint,
\* as the first revision of the matcher did
sourceFilterThrows_Unguarded(pairing, sourceCity, hoverPoint) ==
    ~Destructurable(Prop(pairing, sourceCity))

\* the filter callback reaches the destructuring only behind isLocationPoint
sourceFilterThrows(pairing, sourceCity, hoverPoint) ==
    LET sourcePoint == Prop(pairing, sourceCity)
    IN  IF ~isLocationPoint(sourcePoint) THEN FALSE
        ELSE ~Destructurable(sourcePoint)

\* the map callback reads targetPoint.coordinates only behind isLocationPoint
targetMapThrows(pairing, targetCity) ==
    LET targetPoint == Prop(pairing, targetCity)
    IN  IF isLocationPoint(targetPoint) THEN ~Dereferenceable(targetPoint) ELSE FALSE

\* an exception in a callback leaves filter or map and ends the invocation
useMatchedCityPointsThrows(hoverPoint, pairingList, sourceCity, targetCity) ==
    IF hoverPoint = Null \/ Len(pairingList) = 0 THEN FALSE
    ELSE \/ \E i \in 1..Len(pairingList) :
              sourceFilterThrows(pairingList[i], sourceCity, hoverPoint)
         \/ \E i \in 1..Len(pairingList) :
              /\ sourceFilter(pairingList[i], sourceCity, hoverPoint)
              /\ targetMapThrows(pairingList[i], targetCity)

----------------------------------------------------------------------------
(* The MatchedPoint records of the later matcher revision                   *)

\* The square of the normalized distance, as the fraction num / den
normalizedDistanceSquared(p, h) ==
    [num |-> distanceSquared(p, h), den |-> Square(NearbyRadius)]

MatchedPoint(pairing, hoverPoint, sourceCity, targetCity) ==
    LET source == Coordinates(Prop(pairing, sourceCity))
        target == Coordinates(Prop(pairing, targetCity))
    IN  [coordinates |-> target,
         distance    |-> normalizedDistanceSquared(source, hoverPoint),
         color       |-> getPairingColor(source, target),
         pairingId   |-> <<sourceCity, targetCity>>]

matchedPointRecords(hoverPoint, pairingList, sourceCity, targetCity) ==
    IF hoverPoint = Null \/ Len(pairingList) = 0 THEN <<>>
    ELSE LET near == SelectSeq(pairingList,
                         LAMBDA p: /\ sourceFilter(p, sourceCity, hoverPoint)
                                   /\ targetMap(p, targetCity) # Null)
         IN  [i \in 1..Len(near) |->
                 MatchedPoint(near[i], hoverPoint, sourceCity, targetCity)]

\* mutant: the boundary counts as within (<= in place of <)
isWithin_Inclusive(p, h, maxDistance) == distanceSquared(p, h) <= Square(maxDistance)

\* distance < maxDistance, with the radius an argument
isWithin(p, h, maxDistance) == distanceSquared(p, h) < Square(maxDistance)

\* match(hoverPoint, pairings, sourceRoleKey, targetRoleKey, maxDistance): the
\* target coordinates of the MatchedPoints it emits
match(hoverPoint, pairingList, sourceCity, targetCity, maxDistance) ==
    IF hoverPoint = Null \/ Len(pairingList) = 0 THEN <<>>
    ELSE LET near == SelectSeq(pairingList,
                         LAMBDA p: /\ isLocationPoint(Prop(p, sourceCity))
                                   /\ isWithin(Coordinates(Prop(p, sourceCity)),
                                               hoverPoint, maxDistance)
                                   /\ targetMap(p, targetCity) # Null)
         IN  [i \in 1..Len(near) |-> targetMap(near[i], targetCity)]

----------------------------------------------------------------------------
(* Sample data: coordinates in units of 0.001 degree *)

Seattle0  == <<47606, -122332>>     \* Seattle centre
Seattle5  == <<47609, -122328>>     \* 5 units from Seattle0 (3, 4)
Seattle10 == <<47612, -122324>>     \* exactly 10 units from Seattle0 (6, 8)
Seattle30 == <<47636, -122332>>     \* 30 units from Seattle0
Portland0  == <<45515, -122678>>    \* Portland centre
Portland7  == <<45522, -122671>>    \* sqrt(98) units from Portland0 (7, 7)
Portland10 == <<45525, -122678>>    \* exactly 10 units from Portland0
Portland30 == <<45545, -122678>>    \* 30 units from Portland0

\* where the cursor may be reported on map 1 and on map 2
City1HoverPoints == {Seattle0, Seattle5}
City2HoverPoints == {Portland0, Portland10}
HoverPoints == City1HoverPoints \cup City2HoverPoints

Pairing(seattle, portland) ==
    [seattle |-> seattle, portland |-> portland, createdAt |-> StringValue]

PairingRecord(id, pairing) ==
    [isObject |-> TRUE, hasId |-> TRUE, hasPairing |-> TRUE,
     pairingIsObject |-> TRUE, id |-> id, pairing |-> pairing]

\* what the storage may answer: well-formed records and malformed ones.  A
\* response may hold a record twice: two stored pairings with equal content.
RecordUniverse ==
    { PairingRecord("a", Pairing(LocationPoint(Seattle0),  LocationPoint(Portland0))),
      PairingRecord("b", Pairing(LocationPoint(Seattle10), LocationPoint(Portland10))),
      PairingRecord("c", Pairing(LocationPoint(Seattle5),  LocationPoint(Portland0))),
      PairingRecord("d", Pairing(LocationPoint(Seattle0),  LocationPoint(Portland7))),
      PairingRecord("e", Pairing(LocationPoint(Seattle30), LocationPoint(Portland30))),
      PairingRecord("f", [seattle |-> LocationPoint(Seattle0), createdAt |-> StringValue]),
      PairingRecord("g", Pairing(LocationPoint(Seattle0), BadPoint)) }

\* an object whose coordinates array holds a value that is no number
StringCoordPoint ==
    [type |-> "object", hasCity |-> TRUE, hasCoordinates |-> TRUE,
     isArray |-> TRUE, coordinates |-> <<Num(47606), NotNum>>]

\* the pairing objects a matcher invocation may be handed
PairingUniverse ==
    { r.pairing : r \in RecordUniverse }
        \cup { Pairing(StringCoordPoint, LocationPoint(Portland0)) }

SeqsUpTo(S, n) == UNION { [1..k -> S] : k \in 0..n }

RoleKeys == {"seattle", "portland", "createdAt", "boston"}

----------------------------------------------------------------------------
(* CityMaps *)

\* mutant: only the first city key is looked at
isValidPairingRecord_FirstKeyOnly(record, keys) ==
    /\ record.isObject
    /\ record.hasId /\ record.hasPairing
    /\ record.pairingIsObject
    /\ keys[1] \in DOMAIN record.pairing
    /\ isLocationPoint(record.pairing[keys[1]])

isValidPairingRecord(record, keys) ==
    /\ record.isObject
    /\ record.hasId /\ record.hasPairing
    /\ record.pairingIsObject
    /\ \A i \in 1..Len(keys) :
          /\ keys[i] \in DOMAIN record.pairing
          /\ isLocationPoint(record.pairing[keys[i]])

\* mutant: the lists are computed when a hover point changes and otherwise kept
Recompute_OnHoverOnly ==
    /\ city1MatchedPoints' =
          IF city2HoverPoint' = city2HoverPoint THEN city1MatchedPoints
          ELSE useMatchedCityPoints(city2HoverPoint', pairings', cityKeys'[2], cityKeys'[1])
    /\ city2MatchedPoints' =
          IF city1HoverPoint' = city1HoverPoint THEN city2MatchedPoints
          ELSE useMatchedCityPoints(city1HoverPoint', pairings', cityKeys'[1], cityKeys'[2])

\* the two useComputed signals, re-evaluated from the signals they read
Recompute ==
    /\ city1MatchedPoints' =
          useMatchedCityPoints(city2HoverPoint', pairings', cityKeys'[2], cityKeys'[1])
    /\ city2MatchedPoints' =
          useMatchedCityPoints(city1HoverPoint', pairings', cityKeys'[1], cityKeys'[2])

Init ==
    /\ cityKeys = <<"seattle", "portland">>
    /\ city1HoverPoint = Null /\ city2HoverPoint = Null
    /\ pairings = <<>>
    /\ city1MatchedPoints = <<>> /\ city2MatchedPoints = <<>>
    /\ isLoading = FALSE /\ error = FALSE /\ inFlight = 0
    /\ fetchedTotal = 0 /\ lastHoverPos1 = Null /\ lastHoverPos2 = Null
    /\ mHover = Null /\ mPairings = <<>> /\ mSource = "seattle" /\ mTarget = "portland"
    /\ mDone = FALSE /\ mResult = <<>> /\ mThrew = FALSE
    /\ mMaxDistance = NearbyRadius /\ mWithin = <<>>
    /\ coords1 = Seattle0 /\ coords2 = Portland0 /\ colorDone = FALSE
    /\ color = hsl(0, 0, 0)
    /\ PointIdle /\ ApiIdle /\ HoverIdle /\ PairIdle /\ DeleteIdle /\ FetchIdle
    /\ WrapIdle /\ MarkerIdle

\* mutant: one hover signal serves both maps
handleCity1Hover_SharedSignal(point) ==
    /\ city1HoverPoint' = point
    /\ city2HoverPoint' = point
    /\ UNCHANGED <<cityKeys, pairings, isLoading, error, inFlight, fetchedTotal>>
    /\ Recompute

\* mutant: a null report is dropped, the last hover point stays
handleCity1Hover_KeepsOnNull(point) ==
    /\ city1HoverPoint' = IF point = Null THEN city1HoverPoint ELSE point
    /\ UNCHANGED <<cityKeys, city2HoverPoint, pairings, isLoading, error, inFlight,
                   fetchedTotal>>
    /\ Recompute

handleCity1Hover(point) ==
    /\ city1HoverPoint' = point
    /\ UNCHANGED <<cityKeys, city2HoverPoint, pairings, isLoading, error, inFlight,
                   fetchedTotal>>
    /\ Recompute

handleCity2Hover(point) ==
    /\ city2HoverPoint' = point
    /\ UNCHANGED <<cityKeys, city1HoverPoint, pairings, isLoading, error, inFlight,
                   fetchedTotal>>
    /\ Recompute

\* the literal 0.0001 of the mousemove handler, in units of 0.0001 degree
HoverThreshold == 1

\* mutant: a move counts only if both coordinates changed (&& in place of ||)
positionChanged_BothCoordinates(lastHoverPos, newPos, unit) ==
    \/ lastHoverPos = Null
    \/ /\ Abs(lastHoverPos[1] - newPos[1]) * unit > HoverThreshold
       /\ Abs(lastHoverPos[2] - newPos[2]) * unit > HoverThreshold

\* !lastHoverPos || |lastHoverPos[0] - lat| > 0.0001 || |lastHoverPos[1] - lng| > 0.0001
\* for positions whose unit is `unit` times 0.0001 degree
positionChanged(lastHoverPos, newPos, unit) ==
    \/ lastHoverPos = Null
    \/ Abs(lastHoverPos[1] - newPos[1]) * unit > HoverThreshold
    \/ Abs(lastHoverPos[2] - newPos[2]) * unit > HoverThreshold

\* the same test on the coordinate grid, whose unit is ten units of 0.0001 degree
movedSignificantly(lastHoverPos, newPos) == positionChanged(lastHoverPos, newPos, 10)

\* handleMouseMove of the Map whose onPointHover is handleCity1Hover
map1HandleMouseMove ==
    \E newPos \in City1HoverPoints :
        /\ IF movedSignificantly(lastHoverPos1, newPos)
           THEN handleCity1Hover(newPos) /\ lastHoverPos1' = newPos
           ELSE UNCHANGED <<cityVars>>
        /\ UNCHANGED <<lastHoverPos2, matchVars, colorVars, pointVars, apiVars, hoverVars,
                       pairVars, deleteVars, fetchVars, wrapVars, markerVars>>

\* handleMouseOut of the same Map
map1HandleMouseOut ==
    /\ handleCity1Hover(Null)
    /\ lastHoverPos1' = Null
    /\ UNCHANGED <<lastHoverPos2, matchVars, colorVars, pointVars, apiVars, hoverVars,
                   pairVars, deleteVars, fetchVars, wrapVars, markerVars>>

map2HandleMouseMove ==
    \E newPos \in City2HoverPoints :
        /\ IF movedSignificantly(lastHoverPos2, newPos)
           THEN handleCity2Hover(newPos) /\ lastHoverPos2' = newPos
           ELSE UNCHANGED <<cityVars>>
        /\ UNCHANGED <<lastHoverPos1, matchVars, colorVars, pointVars, apiVars, hoverVars,
                       pairVars, deleteVars, fetchVars, wrapVars, markerVars>>

map2HandleMouseOut ==
    /\ handleCity2Hover(Null)
    /\ lastHoverPos2' = Null
    /\ UNCHANGED <<lastHoverPos1, matchVars, colorVars, pointVars, apiVars, hoverVars,
                   pairVars, deleteVars, fetchVars, wrapVars, markerVars>>

\* fetchPairings up to its first await
fetchPairingsStart ==
    /\ inFlight < MaxInFlight
    /\ inFlight' = inFlight + 1
    /\ isLoading' = TRUE
    /\ error' = FALSE
    /\ UNCHANGED <<cityKeys, city1HoverPoint, city2HoverPoint, pairings, fetchedTotal,
                   lastHoverPos1, lastHoverPos2>>
    /\ Recompute
    /\ UNCHANGED <<matchVars, colorVars, pointVars, apiVars, hoverVars, pairVars,
                   deleteVars, fetchVars, wrapVars, markerVars>>

\* the response is an array: the try block runs to its end, then finally
fetchPairingsOk ==
    /\ inFlight > 0
    /\ \E data \in SeqsUpTo(RecordUniverse, MaxPairings) :
          LET validPairings ==
                  SelectSeq(data, LAMBDA r: isValidPairingRecord(r, cityKeys))
          IN  /\ fetchedTotal' = Len(data)
              /\ pairings' = [i \in 1..Len(validPairings) |-> validPairings[i].pairing]
    /\ inFlight' = inFlight - 1
    /\ isLoading' = FALSE
    /\ UNCHANGED <<cityKeys, city1HoverPoint, city2HoverPoint, error,
                   lastHoverPos1, lastHoverPos2>>
    /\ Recompute
    /\ UNCHANGED <<matchVars, colorVars, pointVars, apiVars, hoverVars, pairVars,
                   deleteVars, fetchVars, wrapVars, markerVars>>

\* mutant: the catch block leaves the pairing set as it was
fetchPairingsFail_KeepsPairings ==
    /\ inFlight > 0
    /\ error' = TRUE
    /\ inFlight' = inFlight - 1
    /\ isLoading' = FALSE
    /\ UNCHANGED <<cityKeys, city1HoverPoint, city2HoverPoint, pairings, fetchedTotal,
                   lastHoverPos1, lastHoverPos2>>
    /\ Recompute
    /\ UNCHANGED <<matchVars, colorVars, pointVars, apiVars, hoverVars, pairVars,
                   deleteVars, fetchVars, wrapVars, markerVars>>

\* fetch rejects, the status is not OK or the body is no array: catch, then finally
fetchPairingsFail ==
    /\ inFlight > 0
    /\ error' = TRUE
    /\ pairings' = <<>>
    /\ inFlight' = inFlight - 1
    /\ isLoading' = FALSE
    /\ UNCHANGED <<cityKeys, city1HoverPoint, city2HoverPoint, fetchedTotal,
                   lastHoverPos1, lastHoverPos2>>
    /\ Recompute
    /\ UNCHANGED <<matchVars, colorVars, pointVars, apiVars, hoverVars, pairVars,
                   deleteVars, fetchVars, wrapVars, markerVars>>

Next ==
    \/ map1HandleMouseMove
    \/ map1HandleMouseOut
    \/ map2HandleMouseMove
    \/ map2HandleMouseOut
    \/ fetchPairingsStart
    \/ fetchPairingsOk
    \/ fetchPairingsFail

Spec == Init /\ [][Next]_vars

----------------------------------------------------------------------------
(* One matcher invocation on arbitrary arguments: any hover point, any list *)
(* of pairing objects (well-formed or not) and any two role keys.           *)

\* the radius arguments of an invocation: zero and the code's literal
MatchRadii == {0, NearbyRadius}

MatchInit ==
    /\ cityKeys = <<"seattle", "portland">>
    /\ city1HoverPoint = Null /\ city2HoverPoint = Null
    /\ pairings = <<>>
    /\ city1MatchedPoints = <<>> /\ city2MatchedPoints = <<>>
    /\ isLoading = FALSE /\ error = FALSE /\ inFlight = 0
    /\ fetchedTotal = 0 /\ lastHoverPos1 = Null /\ lastHoverPos2 = Null
    /\ mHover \in HoverPoints \cup {Null}
    /\ mPairings \in SeqsUpTo(PairingUniverse, MaxPairings)
    /\ mSource \in RoleKeys /\ mTarget \in RoleKeys
    /\ mMaxDistance \in MatchRadii
    /\ mDone = FALSE /\ mResult = <<>> /\ mThrew = FALSE /\ mWithin = <<>>
    /\ coords1 = Seattle0 /\ coords2 = Portland0 /\ colorDone = FALSE
    /\ color = hsl(0, 0, 0)
    /\ PointIdle /\ ApiIdle /\ HoverIdle /\ PairIdle /\ DeleteIdle /\ FetchIdle
    /\ WrapIdle /\ MarkerIdle

matchCall ==
    /\ ~mDone
    /\ mThrew' = useMatchedCityPointsThrows(mHover, mPairings, mSource, mTarget)
    /\ mResult' = IF mThrew' THEN <<>>
                  ELSE useMatchedCityPoints(mHover, mPairings, mSource, mTarget)
    /\ mWithin' = match(mHover, mPairings, mSource, mTarget, mMaxDistance)
    /\ mDone' = TRUE
    /\ UNCHANGED <<mHover, mPairings, mSource, mTarget, mMaxDistance>>
    /\ UNCHANGED <<cityVars, colorVars, pointVars, apiVars, hoverVars, pairVars, deleteVars,
                   fetchVars, wrapVars, markerVars>>

MatchNext == matchCall

MatchSpec == MatchInit /\ [][MatchNext]_vars

----------------------------------------------------------------------------
(* One getPairingColor call on coordinates of the whole valid range *)

ColorLats == {-90000, -89999, -45123, -1, 0, 1, 399, 45515, 47606, 89999, 90000}
ColorLngs == {-180000, -179999, -122678, -122332, -1, 0, 1, 401, 179999, 180000}
ColorCoords == ColorLats \X ColorLngs

ColorInit ==
    /\ cityKeys = <<"seattle", "portland">>
    /\ city1HoverPoint = Null /\ city2HoverPoint = Null
    /\ pairings = <<>>
    /\ city1MatchedPoints = <<>> /\ city2MatchedPoints = <<>>
    /\ isLoading = FALSE /\ error = FALSE /\ inFlight = 0
    /\ fetchedTotal = 0 /\ lastHoverPos1 = Null /\ lastHoverPos2 = Null
    /\ mHover = Null /\ mPairings = <<>> /\ mSource = "seattle" /\ mTarget = "portland"
    /\ mDone = FALSE /\ mResult = <<>> /\ mThrew = FALSE
    /\ mMaxDistance = NearbyRadius /\ mWithin = <<>>
    /\ coords1 \in ColorCoords /\ coords2 \in ColorCoords
    /\ colorDone = FALSE
    /\ color = hsl(0, 0, 0)
    /\ PointIdle /\ ApiIdle /\ HoverIdle /\ PairIdle /\ DeleteIdle /\ FetchIdle
    /\ WrapIdle /\ MarkerIdle

colorCall ==
    /\ ~colorDone
    /\ color' = getPairingColor(coords1, coords2)
    /\ colorDone' = TRUE
    /\ UNCHANGED <<coords1, coords2>>
    /\ UNCHANGED <<cityVars, matchVars, pointVars, apiVars, hoverVars, pairVars, deleteVars,
                   fetchVars, wrapVars, markerVars>>

ColorNext == colorCall

ColorSpec == ColorInit /\ [][ColorNext]_vars

----------------------------------------------------------------------------
(* One isLocationPoint call *)

CityIdle ==
    /\ cityKeys = <<"seattle", "portland">>
    /\ city1HoverPoint = Null /\ city2HoverPoint = Null
    /\ pairings = <<>>
    /\ city1MatchedPoints = <<>> /\ city2MatchedPoints = <<>>
    /\ isLoading = FALSE /\ error = FALSE /\ inFlight = 0
    /\ fetchedTotal = 0 /\ lastHoverPos1 = Null /\ lastHoverPos2 = Null

MatchIdle ==
    /\ mHover = Null /\ mPairings = <<>> /\ mSource = "seattle" /\ mTarget = "portland"
    /\ mDone = FALSE /\ mResult = <<>> /\ mThrew = FALSE
    /\ mMaxDistance = NearbyRadius /\ mWithin = <<>>

ColorIdle ==
    /\ coords1 = Seattle0 /\ coords2 = Portland0 /\ colorDone = FALSE
    /\ color = hsl(0, 0, 0)

MaxCoordinates == 3     \* longest coordinates array of a value

CoordinateElements == {Num(47606), NaN, Infinity, NotNum}

\* the values isLocationPoint may be handed: undefined, null, a string, and
\* the objects with or without a city, without coordinates, with coordinates
\* that are no array, and with a coordinates array of any elements
ValueUniverse ==
    {Undefined, NullValue, StringValue}
        \cup { [type |-> "object", hasCity |-> c, hasCoordinates |-> FALSE,
                isArray |-> FALSE, coordinates |-> <<>>] : c \in BOOLEAN }
        \cup { [type |-> "object", hasCity |-> c, hasCoordinates |-> TRUE,
                isArray |-> FALSE, coordinates |-> <<>>] : c \in BOOLEAN }
        \cup { [type |-> "object", hasCity |-> c, hasCoordinates |-> TRUE,
                isArray |-> TRUE, coordinates |-> a] :
                    c \in BOOLEAN, a \in SeqsUpTo(CoordinateElements, MaxCoordinates) }

PointInit ==
    /\ CityIdle /\ MatchIdle /\ ColorIdle /\ ApiIdle /\ HoverIdle /\ PairIdle
    /\ DeleteIdle /\ FetchIdle /\ WrapIdle /\ MarkerIdle
    /\ pValue \in ValueUniverse
    /\ pDone = FALSE /\ pAccepted = FALSE

isLocationPointCall ==
    /\ ~pDone
    /\ pAccepted' = isLocationPoint(pValue)
    /\ pDone' = TRUE
    /\ UNCHANGED <<pValue, cityVars, matchVars, colorVars, apiVars, hoverVars, pairVars,
                   deleteVars, fetchVars, wrapVars, markerVars>>

PointNext == isLocationPointCall

PointSpec == PointInit /\ [][PointNext]_vars

----------------------------------------------------------------------------
(* The pairings API: POST /api/pairings over Deno KV *)

MaxClock == 3     \* the server clock runs from 1 to MaxClock milliseconds

\* the values a request body may hold under a city key
BodyValues == {LocationPoint(Seattle0), NoCityPoint, BadPoint}

BodyKeys == {"seattle", "portland"}

\* what req.json() may meet: text that is no JSON, null, a string, and the
\* objects holding a value under none, one or both of the city keys
BodyUniverse ==
    { [kind |-> k, fields |-> <<>>] : k \in {"unparseable", "null", "string"} }
        \cup { [kind |-> "object", fields |-> f] :
                  f \in UNION { [D -> BodyValues] : D \in SUBSET BodyKeys } }

\* body.createdAt = new Date().toISOString() when the body has none
withCreatedAt(fields) ==
    [k \in DOMAIN fields \cup {"createdAt"} |->
        IF k \in DOMAIN fields THEN fields[k] ELSE StringValue]

\* Object.entries(body).filter(...): the keys other than createdAt whose value
\* is an object with a coordinates array of length 2
cityEntries(fields) ==
    { key \in DOMAIN fields :
        /\ key # "createdAt"
        /\ fields[key].type = "object"
        /\ fields[key].hasCoordinates
        /\ fields[key].isArray
        /\ Len(fields[key].coordinates) = 2 }

\* kv.set(["pairings", id], pairing) with id = new Date().getTime().toString()
createPairing(pairing) ==
    [id \in DOMAIN kv \cup {now} |-> IF id = now THEN pairing ELSE kv[id]]

ApiInit ==
    /\ CityIdle /\ MatchIdle /\ ColorIdle /\ PointIdle
    /\ ApiIdle /\ HoverIdle /\ PairIdle /\ DeleteIdle /\ FetchIdle /\ WrapIdle
    /\ MarkerIdle

\* the POST handler on a request carrying `body`
handlePOST(body) ==
    /\ lastBody' = body
    /\ IF body.kind = "unparseable"
       THEN lastStatus' = 500 /\ kv' = kv
       ELSE IF body.kind # "object"
       THEN lastStatus' = 400 /\ kv' = kv
       ELSE IF Cardinality(cityEntries(withCreatedAt(body.fields))) < 2
       THEN lastStatus' = 400 /\ kv' = kv
       ELSE lastStatus' = 200 /\ kv' = createPairing(withCreatedAt(body.fields))

POST ==
    \E body \in BodyUniverse :
        /\ handlePOST(body)
        /\ UNCHANGED <<now, cityVars, matchVars, colorVars, pointVars, hoverVars, pairVars,
                       deleteVars, fetchVars, wrapVars, markerVars>>

\* a millisecond passes on the server
clockTick ==
    /\ now < MaxClock
    /\ now' = now + 1
    /\ UNCHANGED <<kv, lastStatus, lastBody, cityVars, matchVars, colorVars, pointVars,
                   hoverVars, pairVars, deleteVars, fetchVars, wrapVars, markerVars>>

ApiNext == POST \/ clockTick

ApiSpec == ApiInit /\ [][ApiNext]_vars

----------------------------------------------------------------------------
(* PairingControls, the two selection signals of CityMaps, and the POST     *)
(* handler answering its create requests                                    *)

MaxSelections == 3     \* map clicks in a run
MaxRequests == 2       \* create requests in flight at once

\* the city keys CitySelector offers on either side
SelectableKeys == {"seattle", "portland"}

SelectablePoints1 == {Seattle0, Seattle5}
SelectablePoints2 == {Portland0}

\* pairingData: createdAt, then pairingData[city1.key], then pairingData[city2.key]
pairingData(keys, point1, point2) ==
    [k \in {"createdAt", keys[1], keys[2]} |->
        IF k = keys[2] THEN LocationPoint(point2)
        ELSE IF k = keys[1] THEN LocationPoint(point1)
        ELSE StringValue]

\* the request handlePairLocations sends for the selections made so far
createRequest(point1, point2, count) ==
    [body |-> [kind |-> "object", fields |-> pairingData(pcKeys, point1, point2)],
     selections |-> count]

\* handlePairLocations up to `await fetch`, started with the given selections
sendCreateRequest(point1, point2, count) ==
    /\ Len(pcInFlight) < MaxRequests
    /\ pcInFlight' = Append(pcInFlight, createRequest(point1, point2, count))

\* the auto-pair effect, run after a render that changed one of its dependencies
autoPairEffect(enabled, point1, point2, count) ==
    IF enabled /\ point1 # Null /\ point2 # Null
    THEN sendCreateRequest(point1, point2, count)
    ELSE UNCHANGED pcInFlight

PairInit ==
    /\ CityIdle /\ MatchIdle /\ ColorIdle /\ PointIdle /\ ApiIdle /\ HoverIdle
    /\ DeleteIdle /\ FetchIdle /\ WrapIdle /\ MarkerIdle
    /\ pcKeys \in SelectableKeys \X SelectableKeys
    /\ city1Point = Null /\ city2Point = Null /\ autoPairEnabled = FALSE
    /\ selectionCount = 0 /\ pcInFlight = <<>>
    /\ pcOutcome = "none" /\ pcCallbackCalled = FALSE

handleCity1Select ==
    \E point \in SelectablePoints1 :
        /\ selectionCount < MaxSelections
        /\ selectionCount' = selectionCount + 1
        /\ city1Point' = point
        /\ autoPairEffect(autoPairEnabled, point, city2Point, selectionCount + 1)
        /\ UNCHANGED <<pcKeys, city2Point, autoPairEnabled, pcOutcome, pcCallbackCalled>>
        /\ UNCHANGED <<cityVars, matchVars, colorVars, pointVars, apiVars, hoverVars,
                       deleteVars, fetchVars, wrapVars, markerVars>>

handleCity2Select ==
    \E point \in SelectablePoints2 :
        /\ selectionCount < MaxSelections
        /\ selectionCount' = selectionCount + 1
        /\ city2Point' = point
        /\ autoPairEffect(autoPairEnabled, city1Point, point, selectionCount + 1)
        /\ UNCHANGED <<pcKeys, city1Point, autoPairEnabled, pcOutcome, pcCallbackCalled>>
        /\ UNCHANGED <<cityVars, matchVars, colorVars, pointVars, apiVars, hoverVars,
                       deleteVars, fetchVars, wrapVars, markerVars>>

\* the auto-pair switch
toggleAutoPair ==
    /\ autoPairEnabled' = ~autoPairEnabled
    /\ autoPairEffect(~autoPairEnabled, city1Point, city2Point, selectionCount)
    /\ UNCHANGED <<pcKeys, city1Point, city2Point, selectionCount, pcOutcome,
                   pcCallbackCalled>>
    /\ UNCHANGED <<cityVars, matchVars, colorVars, pointVars, apiVars, hoverVars,
                   deleteVars, fetchVars, wrapVars, markerVars>>

\* a click on the create button, which is disabled without both selections and
\* under auto-pair: handlePairLocations up to `await fetch`
handlePairLocations ==
    /\ city1Point # Null /\ city2Point # Null
    /\ ~autoPairEnabled
    /\ sendCreateRequest(city1Point, city2Point, selectionCount)
    /\ UNCHANGED <<pcKeys, city1Point, city2Point, autoPairEnabled, selectionCount,
                   pcOutcome, pcCallbackCalled>>
    /\ UNCHANGED <<cityVars, matchVars, colorVars, pointVars, apiVars, hoverVars,
                   deleteVars, fetchVars, wrapVars, markerVars>>

\* the server handles a request and answers OK: handlePairLocations after the await
handlePairLocationsOk ==
    \E i \in 1..Len(pcInFlight) :
        /\ handlePOST(pcInFlight[i].body)
        /\ lastStatus' = 200
        /\ pcInFlight' = SubSeqAt(pcInFlight, (1..Len(pcInFlight)) \ {i})
        /\ city1Point' = Null /\ city2Point' = Null
        /\ pcOutcome' = "ok" /\ pcCallbackCalled' = TRUE
        /\ UNCHANGED <<pcKeys, autoPairEnabled, selectionCount>>
        /\ UNCHANGED <<now, cityVars, matchVars, colorVars, pointVars, hoverVars, deleteVars,
                       fetchVars, wrapVars, markerVars>>

\* mutant: the selections are reset before response.ok is looked at
handlePairLocationsNotOk_Resets ==
    \E i \in 1..Len(pcInFlight) :
        /\ handlePOST(pcInFlight[i].body)
        /\ lastStatus' # 200
        /\ pcInFlight' = SubSeqAt(pcInFlight, (1..Len(pcInFlight)) \ {i})
        /\ city1Point' = Null /\ city2Point' = Null
        /\ pcOutcome' = "notOk" /\ pcCallbackCalled' = FALSE
        /\ UNCHANGED <<pcKeys, autoPairEnabled, selectionCount>>
        /\ UNCHANGED <<now, cityVars, matchVars, colorVars, pointVars, hoverVars, deleteVars,
                       fetchVars, wrapVars, markerVars>>

\* the server handles a request and answers with another status
handlePairLocationsNotOk ==
    \E i \in 1..Len(pcInFlight) :
        /\ handlePOST(pcInFlight[i].body)
        /\ lastStatus' # 200
        /\ pcInFlight' = SubSeqAt(pcInFlight, (1..Len(pcInFlight)) \ {i})
        /\ pcOutcome' = "notOk" /\ pcCallbackCalled' = FALSE
        /\ UNCHANGED <<pcKeys, city1Point, city2Point, autoPairEnabled, selectionCount>>
        /\ UNCHANGED <<now, cityVars, matchVars, colorVars, pointVars, hoverVars, deleteVars,
                       fetchVars, wrapVars, markerVars>>

\* fetch rejects before the request reaches the server: the catch block
handlePairLocationsCatch ==
    \E i \in 1..Len(pcInFlight) :
        /\ pcInFlight' = SubSeqAt(pcInFlight, (1..Len(pcInFlight)) \ {i})
        /\ pcOutcome' = "threw" /\ pcCallbackCalled' = FALSE
        /\ UNCHANGED <<pcKeys, city1Point, city2Point, autoPairEnabled, selectionCount>>
        /\ UNCHANGED <<cityVars, matchVars, colorVars, pointVars, apiVars, hoverVars,
                       deleteVars, fetchVars, wrapVars, markerVars>>

PairNext ==
    \/ handleCity1Select
    \/ handleCity2Select
    \/ toggleAutoPair
    \/ handlePairLocations
    \/ handlePairLocationsOk
    \/ handlePairLocationsNotOk
    \/ handlePairLocationsCatch
    \/ clockTick

PairSpec == PairInit /\ [][PairNext]_vars

----------------------------------------------------------------------------
(* PairingList with one DeleteButton per entry, and the DELETE handler      *)

MaxEntries == 3        \* stored pairings when the page is rendered

EntryIds == 1..MaxEntries

StoredPairings ==
    { pairingData(<<"seattle", "portland">>, Seattle0, Portland0),
      pairingData(<<"seattle", "portland">>, Seattle5, Portland0) }

\* getAllPairings: the entries of the store in key order
getAllPairings(store) ==
    [k \in 1..Cardinality(DOMAIN store) |->
        LET id == CHOOSE i \in DOMAIN store :
                      Cardinality({j \in DOMAIN store : j < i}) = k - 1
        IN [id |-> id, pairing |-> store[id]]]

\* kv.delete(["pairings", id])
deletePairing(id) == [k \in DOMAIN kv \ {id} |-> kv[k]]

\* mutant: the entry at the position of the id's value is dropped
handleDeletePairing_ByPosition(list, id) ==
    SubSeqAt(list, (1..Len(list)) \ {id})

\* setPairings(pairings => pairings.filter(pairing => pairing.id !== id))
handleDeletePairing(list, id) ==
    SubSeqAt(list, {k \in 1..Len(list) : list[k].id # id})

\* the ids whose DeleteButton is mounted
Displayed == {dlPairings[k].id : k \in 1..Len(dlPairings)}

DeleteInit ==
    /\ CityIdle /\ MatchIdle /\ ColorIdle /\ PointIdle /\ HoverIdle /\ PairIdle
    /\ FetchIdle /\ WrapIdle /\ MarkerIdle
    /\ \E ids \in SUBSET EntryIds : kv \in [ids -> StoredPairings]
    /\ now = 1 /\ lastStatus = 0 /\ lastBody = NoBody
    /\ dlPairings = getAllPairings(kv)
    /\ dlIsDeleting = [id \in EntryIds |-> FALSE]
    /\ dlOutcome = "none" /\ dlLastId = 0

\* handleDelete, the user cancelling the confirmation
handleDeleteCancel ==
    \E id \in Displayed :
        /\ ~dlIsDeleting[id]
        /\ dlOutcome' = "cancelled" /\ dlLastId' = id
        /\ UNCHANGED <<dlPairings, dlIsDeleting>>
        /\ UNCHANGED <<cityVars, matchVars, colorVars, pointVars, apiVars, hoverVars,
                       pairVars, fetchVars, wrapVars, markerVars>>

\* handleDelete up to `await fetch`
handleDelete ==
    \E id \in Displayed :
        /\ ~dlIsDeleting[id]
        /\ dlIsDeleting' = [dlIsDeleting EXCEPT ![id] = TRUE]
        /\ dlOutcome' = "sent" /\ dlLastId' = id
        /\ UNCHANGED dlPairings
        /\ UNCHANGED <<cityVars, matchVars, colorVars, pointVars, apiVars, hoverVars,
                       pairVars, fetchVars, wrapVars, markerVars>>

\* the DELETE handler deletes and answers 200; handleDelete calls onDelete
handleDeleteOk ==
    \E id \in EntryIds :
        /\ dlIsDeleting[id]
        /\ kv' = deletePairing(id) /\ lastStatus' = 200
        /\ dlPairings' = handleDeletePairing(dlPairings, id)
        /\ dlIsDeleting' = [dlIsDeleting EXCEPT ![id] = FALSE]
        /\ dlOutcome' = "ok" /\ dlLastId' = id
        /\ UNCHANGED <<now, lastBody>>
        /\ UNCHANGED <<cityVars, matchVars, colorVars, pointVars, hoverVars, pairVars,
                       fetchVars, wrapVars, markerVars>>

\* deletePairing throws in the handler, which answers 500
handleDeleteNotOk ==
    \E id \in EntryIds :
        /\ dlIsDeleting[id]
        /\ lastStatus' = 500
        /\ dlIsDeleting' = [dlIsDeleting EXCEPT ![id] = FALSE]
        /\ dlOutcome' = "notOk" /\ dlLastId' = id
        /\ UNCHANGED <<dlPairings, kv, now, lastBody>>
        /\ UNCHANGED <<cityVars, matchVars, colorVars, pointVars, hoverVars, pairVars,
                       fetchVars, wrapVars, markerVars>>

\* fetch rejects: the catch block
handleDeleteCatch ==
    \E id \in EntryIds :
        /\ dlIsDeleting[id]
        /\ dlIsDeleting' = [dlIsDeleting EXCEPT ![id] = FALSE]
        /\ dlOutcome' = "threw" /\ dlLastId' = id
        /\ UNCHANGED dlPairings
        /\ UNCHANGED <<cityVars, matchVars, colorVars, pointVars, apiVars, hoverVars,
                       pairVars, fetchVars, wrapVars, markerVars>>

DeleteNext ==
    \/ handleDeleteCancel
    \/ handleDelete
    \/ handleDeleteOk
    \/ handleDeleteNotOk
    \/ handleDeleteCatch

DeleteSpec == DeleteInit /\ [][DeleteNext]_vars

----------------------------------------------------------------------------
(* Overlapping fetchPairings calls of one CityMaps: the reset effect and    *)
(* the mount effect, the 10-second interval, and onPairingCreated           *)

MaxCalls == 3          \* fetchPairings calls in a run

FetchInit ==
    /\ CityIdle /\ MatchIdle /\ ColorIdle /\ PointIdle /\ ApiIdle /\ HoverIdle
    /\ PairIdle /\ DeleteIdle /\ WrapIdle /\ MarkerIdle
    /\ fcStarted = 0 /\ fcPending = {} /\ fcShown = 0

\* fetchPairings up to its first await, as call number fcStarted + 1
fetchPairingsCall ==
    /\ fcStarted < MaxCalls
    /\ fcStarted' = fcStarted + 1
    /\ fcPending' = fcPending \cup {fcStarted + 1}
    /\ inFlight' = inFlight + 1
    /\ isLoading' = TRUE
    /\ error' = FALSE
    /\ UNCHANGED fcShown
    /\ UNCHANGED <<cityKeys, city1HoverPoint, city2HoverPoint, pairings, fetchedTotal,
                   lastHoverPos1, lastHoverPos2>>
    /\ Recompute
    /\ UNCHANGED <<matchVars, colorVars, pointVars, apiVars, hoverVars, pairVars,
                   deleteVars, wrapVars, markerVars>>

\* a pending call receives an array: its try block runs to the end, then finally
fetchPairingsCallOk ==
    \E call \in fcPending :
        /\ \E data \in SeqsUpTo(RecordUniverse, 1) :
              LET validPairings ==
                      SelectSeq(data, LAMBDA r: isValidPairingRecord(r, cityKeys))
              IN  /\ fetchedTotal' = Len(data)
                  /\ pairings' = [i \in 1..Len(validPairings) |-> validPairings[i].pairing]
        /\ fcPending' = fcPending \ {call}
        /\ fcShown' = call
        /\ inFlight' = inFlight - 1
        /\ isLoading' = FALSE
        /\ UNCHANGED fcStarted
        /\ UNCHANGED <<cityKeys, city1HoverPoint, city2HoverPoint, error,
                       lastHoverPos1, lastHoverPos2>>
        /\ Recompute
        /\ UNCHANGED <<matchVars, colorVars, pointVars, apiVars, hoverVars, pairVars,
                       deleteVars, wrapVars, markerVars>>

\* a pending call fails: catch, then finally
fetchPairingsCallFail ==
    \E call \in fcPending :
        /\ error' = TRUE
        /\ pairings' = <<>>
        /\ fcPending' = fcPending \ {call}
        /\ fcShown' = call
        /\ inFlight' = inFlight - 1
        /\ isLoading' = FALSE
        /\ UNCHANGED fcStarted
        /\ UNCHANGED <<cityKeys, city1HoverPoint, city2HoverPoint, fetchedTotal,
                       lastHoverPos1, lastHoverPos2>>
        /\ Recompute
        /\ UNCHANGED <<matchVars, colorVars, pointVars, apiVars, hoverVars, pairVars,
                       deleteVars, wrapVars, markerVars>>

FetchNext ==
    \/ fetchPairingsCall
    \/ fetchPairingsCallOk
    \/ fetchPairingsCallFail

FetchSpec == FetchInit /\ [][FetchNext]_vars

----------------------------------------------------------------------------
(* CityMapWrapper: CitySelector changes the city pair, and CityMaps, keyed  *)
(* by the pair, is unmounted and mounted anew                               *)

MaxOrphaned == 2       \* calls of unmounted CityMaps still in flight

\* some of the keys of AVAILABLE_CITIES
AvailableKeys == {"seattle", "portland", "boston"}

\* a fresh CityMaps for the pair after its effects ran: every useSignal starts
\* at its initial value, the reset effect assigns null and [] again and calls
\* fetchPairings, and so does the mount effect
mountCityMaps(keys) ==
    /\ cityKeys' = keys /\ pcKeys' = keys
    /\ city1Point' = Null /\ city2Point' = Null
    /\ city1HoverPoint' = Null /\ city2HoverPoint' = Null
    /\ lastHoverPos1' = Null /\ lastHoverPos2' = Null
    /\ pairings' = <<>> /\ fetchedTotal' = 0
    /\ error' = FALSE /\ isLoading' = TRUE
    /\ inFlight' = 2 /\ fcStarted' = 2 /\ fcPending' = {1, 2} /\ fcShown' = 0
    /\ autoPairEnabled' = FALSE /\ selectionCount' = 0 /\ pcInFlight' = <<>>
    /\ pcOutcome' = "none" /\ pcCallbackCalled' = FALSE
    /\ Recompute

WrapperInit ==
    /\ MatchIdle /\ ColorIdle /\ PointIdle /\ ApiIdle /\ HoverIdle /\ PairIdle /\ DeleteIdle
    /\ MarkerIdle
    /\ cityKeys = <<"seattle", "portland">>
    /\ city1HoverPoint = Null /\ city2HoverPoint = Null
    /\ lastHoverPos1 = Null /\ lastHoverPos2 = Null
    /\ pairings = <<>> /\ fetchedTotal = 0
    /\ city1MatchedPoints = <<>> /\ city2MatchedPoints = <<>>
    /\ error = FALSE /\ isLoading = TRUE
    /\ inFlight = 2 /\ fcStarted = 2 /\ fcPending = {1, 2} /\ fcShown = 0
    /\ orphaned = 0

\* mutant: the pair changes in place, CityMaps keeps its signals
handleCitySelectionChange_InPlace(newLeftCity, newRightCity) ==
    /\ cityKeys' = <<newLeftCity, newRightCity>>
    /\ pcKeys' = <<newLeftCity, newRightCity>>
    /\ UNCHANGED <<city1HoverPoint, city2HoverPoint, pairings, isLoading, error, inFlight,
                   fetchedTotal, lastHoverPos1, lastHoverPos2>>
    /\ Recompute
    /\ UNCHANGED <<city1Point, city2Point, autoPairEnabled, selectionCount, pcInFlight,
                   pcOutcome, pcCallbackCalled>>
    /\ UNCHANGED <<matchVars, colorVars, pointVars, apiVars, hoverVars, deleteVars,
                   fetchVars, wrapVars, markerVars>>

\* setLeftCity and setRightCity: the key of CityMaps changes, so the mounted
\* CityMaps is dropped with its calls in flight and a new one is mounted
handleCitySelectionChange(newLeftCity, newRightCity) ==
    /\ orphaned + Cardinality(fcPending) <= MaxOrphaned
    /\ orphaned' = orphaned + Cardinality(fcPending)
    /\ mountCityMaps(<<newLeftCity, newRightCity>>)
    /\ UNCHANGED <<matchVars, colorVars, pointVars, apiVars, hoverVars, deleteVars,
                   markerVars>>

\* the left select changes to another option
handleLeftCityChange ==
    \E key \in AvailableKeys \ {cityKeys[1]} :
        handleCitySelectionChange(key, cityKeys[2])

handleRightCityChange ==
    \E key \in AvailableKeys \ {cityKeys[2]} :
        handleCitySelectionChange(cityKeys[1], key)

\* a click on map 1 or map 2 of the mounted CityMaps
handleCitySelect ==
    /\ \/ \E point \in SelectablePoints1 :
              city1Point' = point /\ UNCHANGED city2Point
       \/ \E point \in SelectablePoints2 :
              city2Point' = point /\ UNCHANGED city1Point
    /\ UNCHANGED <<pcKeys, autoPairEnabled, selectionCount, pcInFlight, pcOutcome,
                   pcCallbackCalled>>
    /\ UNCHANGED <<cityVars, matchVars, colorVars, pointVars, apiVars, hoverVars,
                   deleteVars, fetchVars, wrapVars, markerVars>>

\* a call of an unmounted CityMaps completes: it writes the signals and the
\* state of that instance, which no mounted component reads
orphanedResponse ==
    /\ orphaned > 0
    /\ orphaned' = orphaned - 1
    /\ UNCHANGED <<cityVars, matchVars, colorVars, pointVars, apiVars, hoverVars,
                   pairVars, deleteVars, fetchVars, markerVars>>

WrapperNext ==
    \/ handleLeftCityChange
    \/ handleRightCityChange
    \/ handleCitySelect
    \/ map1HandleMouseMove
    \/ map1HandleMouseOut
    \/ map2HandleMouseMove
    \/ map2HandleMouseOut
    \/ fetchPairingsCallOk
    \/ fetchPairingsCallFail
    \/ orphanedResponse

WrapperSpec == WrapperInit /\ [][WrapperNext]_vars

----------------------------------------------------------------------------
(* The matched-points effect of one Map and the imports it starts           *)

MaxImports == 2        \* import("leaflet") promises pending at once

\* the values the matchedPoints signal may take
MatchedValues == SeqsUpTo({Portland0, Portland7}, 2)

MarkerInit ==
    /\ CityIdle /\ MatchIdle /\ ColorIdle /\ PointIdle /\ ApiIdle /\ HoverIdle
    /\ PairIdle /\ DeleteIdle /\ FetchIdle /\ WrapIdle
    /\ mapInstance = FALSE /\ matchedPoints = <<>>
    /\ matchedMarkers = <<>> /\ pendingImports = <<>>

\* the map-creating effect assigns mapInstanceRef.current; the matched-points
\* effect does not depend on it and is not run again
mapCreated ==
    /\ ~mapInstance
    /\ mapInstance' = TRUE
    /\ UNCHANGED <<matchedPoints, matchedMarkers, pendingImports>>
    /\ UNCHANGED <<cityVars, matchVars, colorVars, pointVars, apiVars, hoverVars,
                   pairVars, deleteVars, fetchVars, wrapVars>>

\* matchedPoints.value changes: the cleanup of the last effect run, if it
\* returned one, then the effect
matchedPointsEffect ==
    \E points \in MatchedValues \ {matchedPoints} :
        /\ matchedPoints' = points
        /\ IF ~mapInstance
           THEN UNCHANGED <<matchedMarkers, pendingImports>>
           ELSE /\ matchedMarkers' = <<>>
                /\ IF points = <<>>
                   THEN UNCHANGED pendingImports
                   ELSE /\ Len(pendingImports) < MaxImports
                        /\ pendingImports' = Append(pendingImports, points)
        /\ UNCHANGED mapInstance
        /\ UNCHANGED <<cityVars, matchVars, colorVars, pointVars, apiVars, hoverVars,
                       pairVars, deleteVars, fetchVars, wrapVars>>

\* the oldest pending import resolves: a marker for each captured point is
\* added to the map and pushed to matchedMarkersRef.current
importResolved ==
    /\ pendingImports # <<>>
    /\ matchedMarkers' = matchedMarkers \o Head(pendingImports)
    /\ pendingImports' = Tail(pendingImports)
    /\ UNCHANGED <<mapInstance, matchedPoints>>
    /\ UNCHANGED <<cityVars, matchVars, colorVars, pointVars, apiVars, hoverVars,
                   pairVars, deleteVars, fetchVars, wrapVars>>

MarkerNext ==
    \/ mapCreated
    \/ matchedPointsEffect
    \/ importResolved

MarkerSpec == MarkerInit /\ [][MarkerNext]_vars

----------------------------------------------------------------------------
(* One Map and the hover signal it reports to, with cursor positions in     *)
(* units of 0.0001 degree relative to a corner of the view                  *)

MaxCursorOffset == 3     \* cursor positions run over 0..MaxCursorOffset in each coordinate

CursorPositions == (0..MaxCursorOffset) \X (0..MaxCursorOffset)

HoverInit ==
    /\ CityIdle /\ MatchIdle /\ ColorIdle /\ PointIdle /\ ApiIdle /\ PairIdle
    /\ DeleteIdle /\ FetchIdle /\ WrapIdle /\ MarkerIdle
    /\ hCursor = Null /\ hPrevHoverPos = Null /\ hReported = FALSE
    /\ hLastHoverPos = Null /\ hHoverPoint = Null

\* handleMouseMove; onPointHover(newPos) stores newPos in the hover signal
handleMouseMove ==
    \E newPos \in CursorPositions :
        /\ hCursor' = newPos
        /\ hPrevHoverPos' = hLastHoverPos
        /\ IF positionChanged(hLastHoverPos, newPos, 1)
           THEN /\ hReported' = TRUE
                /\ hHoverPoint' = newPos
                /\ hLastHoverPos' = newPos
           ELSE /\ hReported' = FALSE
                /\ UNCHANGED <<hHoverPoint, hLastHoverPos>>
        /\ UNCHANGED <<cityVars, matchVars, colorVars, pointVars, apiVars, pairVars, deleteVars,
                       fetchVars, wrapVars, markerVars>>

\* handleMouseOut; onPointHover(null) clears the hover signal
handleMouseOut ==
    /\ hHoverPoint' = Null
    /\ hLastHoverPos' = Null
    /\ hCursor' = Null /\ hPrevHoverPos' = Null /\ hReported' = FALSE
    /\ UNCHANGED <<cityVars, matchVars, colorVars, pointVars, apiVars, pairVars, deleteVars,
                   fetchVars, wrapVars, markerVars>>

HoverNext == handleMouseMove \/ handleMouseOut

HoverSpec == HoverInit /\ [][HoverNext]_vars

----------------------------------------------------------------------------
(* Properties of the matcher *)

\* the radius the specification names as the default, 0.05
DefaultRadius == 50

Range(s) == { s[i] : i \in 1..Len(s) }

\* squared planar Euclidean distance, stated apart from the code's computation
PlanarDistSq(p, h) == (p[1] - h[1]) * (p[1] - h[1]) + (p[2] - h[2]) * (p[2] - h[2])

\* list[i]'s coordinate under a role key that resolves
RoleCoord(list, i, key) ==
    <<list[i][key].coordinates[1].v, list[i][key].coordinates[2].v>>

Resolves(list, i, key) ==
    /\ key \in DOMAIN list[i]
    /\ list[i][key].type = "object"
    /\ Len(list[i][key].coordinates) = 2

\* the pairings whose source-role point is closer than r to the hover point h
Within(h, list, src, r) ==
    IF h = Null THEN {}
    ELSE { i \in 1..Len(list) :
             Resolves(list, i, src) /\ PlanarDistSq(RoleCoord(list, i, src), h) < r * r }

\* the pairings whose source-role point is exactly r away from h
OnBoundary(h, list, src, r) ==
    IF h = Null THEN {}
    ELSE { i \in 1..Len(list) :
             Resolves(list, i, src) /\ PlanarDistSq(RoleCoord(list, i, src), h) = r * r }

EmptyWhenNoInput(h, list, out) == (h = Null \/ Len(list) = 0) => out = <<>>

\* C1: the matcher returns the empty sequence whenever the hover point is absent
\* and whenever the pairing set is empty.
C1_EmptyOnAbsentHoverOrNoPairings ==
    /\ EmptyWhenNoInput(city1HoverPoint, pairings, city2MatchedPoints)
    /\ EmptyWhenNoInput(city2HoverPoint, pairings, city1MatchedPoints)

\* map 1 is not hovered although pairings are loaded, and map 2's hover matches
C1_Witness ==
    /\ city1HoverPoint = Null /\ Len(pairings) > 0
    /\ city2MatchedPoints = <<>>
    /\ city1MatchedPoints # <<>>

StrictTest(h, list, src, tgt, out, r) ==
    /\ \A i \in Within(h, list, src, r) : RoleCoord(list, i, tgt) \in Range(out)
    /\ \A i \in OnBoundary(h, list, src, r) :
          (\A j \in Within(h, list, src, r) :
               RoleCoord(list, j, tgt) # RoleCoord(list, i, tgt))
          => RoleCoord(list, i, tgt) \notin Range(out)

\* C2: the distance test is strict: a pairing whose source point is exactly the
\* radius away from the hover point is not matched (its target is emitted only
\* if another, nearer pairing has the same target), and a pairing whose source
\* point is strictly nearer is matched.
C2_StrictDistanceTest ==
    /\ StrictTest(city1HoverPoint, pairings, cityKeys[1], cityKeys[2],
                  city2MatchedPoints, NearbyRadius)
    /\ StrictTest(city2HoverPoint, pairings, cityKeys[2], cityKeys[1],
                  city1MatchedPoints, NearbyRadius)

\* one pairing on the boundary, one inside, and only the inner one's target shown
C2_Witness ==
    /\ OnBoundary(city1HoverPoint, pairings, cityKeys[1], NearbyRadius) # {}
    /\ Within(city1HoverPoint, pairings, cityKeys[1], NearbyRadius) # {}
    /\ Len(city2MatchedPoints) = 1

ExpectedTargets(h, list, src, tgt, r) ==
    LET I == Within(h, list, src, r)
    IN  [k \in 1..Cardinality(I) |->
            RoleCoord(list, CHOOSE i \in I : Cardinality({j \in I : j < i}) = k - 1, tgt)]

\* C3: the output is exactly the target-role coordinates of the pairings whose
\* source-role point is nearer than the radius to the hover point, for both
\* assignments of the role keys.
C3_OutputIsTargetsWithinRadius ==
    /\ city2MatchedPoints =
          ExpectedTargets(city1HoverPoint, pairings, cityKeys[1], cityKeys[2], NearbyRadius)
    /\ city1MatchedPoints =
          ExpectedTargets(city2HoverPoint, pairings, cityKeys[2], cityKeys[1], NearbyRadius)

\* map 2 is hovered; one pairing is inside the radius and one outside
C3_Witness ==
    /\ city2HoverPoint # Null
    /\ Within(city2HoverPoint, pairings, cityKeys[2], NearbyRadius) # {}
    /\ Within(city2HoverPoint, pairings, cityKeys[2], NearbyRadius) # 1..Len(pairings)
    /\ city1MatchedPoints # <<>>

\* C4: with no radius supplied the radius is 0.05: every pairing whose source
\* point is nearer than 0.05 to the hover point is matched.
C4_DefaultRadiusIsFiveHundredths ==
    /\ \A i \in Within(city1HoverPoint, pairings, cityKeys[1], DefaultRadius) :
          RoleCoord(pairings, i, cityKeys[2]) \in Range(city2MatchedPoints)
    /\ \A i \in Within(city2HoverPoint, pairings, cityKeys[2], DefaultRadius) :
          RoleCoord(pairings, i, cityKeys[1]) \in Range(city1MatchedPoints)

\* C5: one matched point per matching pairing, and no deduplication: the number
\* of matched points is the number of pairings within the radius.
C5_OnePointPerMatchingPairing ==
    /\ Len(city2MatchedPoints) =
          Cardinality(Within(city1HoverPoint, pairings, cityKeys[1], NearbyRadius))
    /\ Len(city1MatchedPoints) =
          Cardinality(Within(city2HoverPoint, pairings, cityKeys[2], NearbyRadius))
    /\ Len(city2MatchedPoints) <= Len(pairings)
    /\ Len(city1MatchedPoints) <= Len(pairings)

\* two pairings with the source at the hover point and the same target
C5_Witness ==
    /\ Len(pairings) = 2
    /\ RoleCoord(pairings, 1, cityKeys[1]) = city1HoverPoint
    /\ RoleCoord(pairings, 2, cityKeys[1]) = city1HoverPoint
    /\ Len(city2MatchedPoints) = 2
    /\ city2MatchedPoints[1] = city2MatchedPoints[2]

RemoveAt(s, i) == [k \in 1..(Len(s) - 1) |-> IF k < i THEN s[k] ELSE s[k + 1]]

Unresolved(list, i, src, tgt) ==
    ~isLocationPoint(Prop(list[i], src)) \/ ~isLocationPoint(Prop(list[i], tgt))

\* C6: a pairing whose source or target role key does not resolve to a valid
\* location point is skipped: the result is a list of coordinates, the same as
\* for the pairing list without that pairing.
C6_UnresolvedPairingIsSkipped ==
    mDone =>
        /\ \A k \in 1..Len(mResult) : Len(mResult[k]) = 2
        /\ \A i \in 1..Len(mPairings) :
              Unresolved(mPairings, i, mSource, mTarget)
              => mResult = useMatchedCityPoints(mHover, RemoveAt(mPairings, i),
                                                mSource, mTarget)

\* a pairing that does not resolve stands beside one that matched
C6_Witness ==
    /\ mDone
    /\ \E i \in 1..Len(mPairings) : Unresolved(mPairings, i, mSource, mTarget)
    /\ mResult # <<>>

NormalizedDistances(h, list, src, tgt, out) ==
    LET records == matchedPointRecords(h, list, src, tgt)
        I       == Within(h, list, src, NearbyRadius)
    IN  /\ [k \in 1..Len(records) |-> records[k].coordinates] = out
        /\ Len(records) = Cardinality(I)
        /\ \A k \in 1..Len(records) :
              LET i == CHOOSE i \in I : Cardinality({j \in I : j < i}) = k - 1
                  d == records[k].distance
              IN  /\ d.num = PlanarDistSq(RoleCoord(list, i, src), h)
                  /\ d.den = NearbyRadius * NearbyRadius
                  /\ 0 <= d.num /\ d.num < d.den
                  /\ (d.num = 0) <=> (RoleCoord(list, i, src) = h)

----------------------------------------------------------------------------
(* Properties of the colour assignment *)

\* C9: getPairingColor(a, b) = getPairingColor(b, a): the call made with the
\* arguments exchanged returns the colour this call returned.
C9_ColorIsSymmetric ==
    colorDone => color = getPairingColor(coords2, coords1)

\* the two coordinates differ in latitude and in longitude
C9_Witness ==
    /\ colorDone
    /\ coords1[1] < coords2[1] /\ coords1[2] > coords2[2]

\* C10: for latitudes in [-90, 90] and longitudes in [-180, 180] the colour has
\* an integer hue in [0, 360), a saturation in [70, 100] and a lightness in
\* [50, 70].
C10_ColorComponentsInRange ==
    colorDone =>
        /\ color.hue \in 0..359
        /\ color.saturation \in 70..100
        /\ color.lightness \in 50..70

\* both arguments at a corner of the valid range, the offset pushing past it
C10_Witness ==
    /\ colorDone
    /\ coords1 = <<90000, 180000>>
    /\ coords2 = <<89999, 179999>>

----------------------------------------------------------------------------
(* Relations between matcher invocations *)

InsertAt(s, i, x) ==
    [k \in 1..(Len(s) + 1) |-> IF k < i THEN s[k] ELSE IF k = i THEN x ELSE s[k - 1]]

\* q's source-role point resolves and is not nearer than r to h
SourceOutside(q, h, src, r) ==
    /\ h # Null
    /\ Resolves(<<q>>, 1, src)
    /\ \A k \in 1..2 : q[src].coordinates[k].t = "number"
    /\ PlanarDistSq(RoleCoord(<<q>>, 1, src), h) >= r * r

\* C11: adding a pairing whose source-role point is not within the radius of
\* the hover point, at any place of the list, leaves the matcher's output
\* unchanged.
C11_FarPairingChangesNothing ==
    mDone =>
        \A q \in PairingUniverse :
            SourceOutside(q, mHover, mSource, NearbyRadius)
            => \A i \in 1..(Len(mPairings) + 1) :
                   useMatchedCityPoints(mHover, InsertAt(mPairings, i, q), mSource, mTarget)
                       = mResult

\* a result with a matched point, and a pairing on the boundary that may be added
C11_Witness ==
    /\ mDone /\ mResult # <<>>
    /\ \E q \in PairingUniverse :
          /\ SourceOutside(q, mHover, mSource, NearbyRadius)
          /\ PlanarDistSq(RoleCoord(<<q>>, 1, mSource), mHover) = NearbyRadius * NearbyRadius

Count(s, x) == Cardinality({ i \in 1..Len(s) : s[i] = x })

SameMultiset(s, t) ==
    /\ Len(s) = Len(t)
    /\ \A x \in Range(s) \cup Range(t) : Count(s, x) = Count(t, x)

IndexPermutations(n) ==
    { f \in [1..n -> 1..n] : \A i, j \in 1..n : f[i] = f[j] => i = j }

\* C12: for every permutation of the pairing list the matcher returns the same
\* multiset of matched points.
C12_OrderOfPairingsIrrelevant ==
    mDone =>
        \A f \in IndexPermutations(Len(mPairings)) :
            SameMultiset(
                useMatchedCityPoints(mHover,
                    [k \in 1..Len(mPairings) |-> mPairings[f[k]]], mSource, mTarget),
                mResult)

\* a list that starts with a far pairing and ends with a near one
C12_Witness ==
    /\ mDone /\ Len(mPairings) >= 2 /\ mResult # <<>>
    /\ SourceOutside(mPairings[1], mHover, mSource, NearbyRadius)
    /\ mPairings[1] # mPairings[Len(mPairings)]

\* the pairings whose source-role point is the hover point itself and whose
\* target-role point resolves
Coincident(h, list, src, tgt) ==
    IF h = Null THEN {}
    ELSE { i \in 1..Len(list) :
             /\ isLocationPoint(Prop(list[i], src))
             /\ isLocationPoint(Prop(list[i], tgt))
             /\ RoleCoord(list, i, src) = h }

C14_MatcherIsTotal ==
    mDone =>
        /\ ~mThrew
        /\ DOMAIN mResult = 1..Len(mResult)
        /\ \A k \in 1..Len(mResult) : Len(mResult[k]) = 2

\* an invocation whose source key resolves to the createdAt string and whose
\* target key no pairing contains
C14_Witness ==
    /\ mDone /\ mHover # Null /\ Len(mPairings) = MaxPairings
    /\ mSource = "createdAt" /\ mTarget = "boston"
    /\ \A i \in 1..Len(mPairings) :
           Prop(mPairings[i], mSource) = StringValue /\ Prop(mPairings[i], mTarget) = Undefined

----------------------------------------------------------------------------
(* Properties of CityMaps *)

\* C15: a hover event and the matcher evaluations it triggers only read the
\* pairing set: the step leaves the pairing set, every pairing in it and the
\* hover point of the other map unchanged.
C15_HoverLeavesPairingsAndOtherHover ==
    [][ /\ (map1HandleMouseMove \/ map1HandleMouseOut)
           => (pairings' = pairings /\ city2HoverPoint' = city2HoverPoint)
        /\ (map2HandleMouseMove \/ map2HandleMouseOut)
           => (pairings' = pairings /\ city1HoverPoint' = city1HoverPoint) ]_vars

\* both maps hovered over a pairing set that matches on both sides
C15_Witness ==
    /\ Len(pairings) = MaxPairings
    /\ city1HoverPoint # Null /\ city2HoverPoint # Null
    /\ city1HoverPoint # city2HoverPoint
    /\ city1MatchedPoints # <<>> /\ city2MatchedPoints # <<>>

\* C16: every pairing held in the pairing set has a valid location point
\* under both selected city keys, whatever records the storage returned.
C16_StoredPairingsValidUnderBothKeys ==
    \A i \in 1..Len(pairings) :
        \A k \in 1..Len(cityKeys) :
            /\ cityKeys[k] \in DOMAIN pairings[i]
            /\ isLocationPoint(pairings[i][cityKeys[k]])

\* a response of which one record was kept and another was dropped
C16_Witness ==
    /\ ~error /\ inFlight = 0
    /\ Len(pairings) > 0 /\ fetchedTotal > Len(pairings)

\* C19: the matched points offered to a map are the matcher's result for the
\* other map's current hover point and the current pairing set.
C19_MatchedPointsAreCurrent ==
    /\ city1MatchedPoints =
          useMatchedCityPoints(city2HoverPoint, pairings, cityKeys[2], cityKeys[1])
    /\ city2MatchedPoints =
          useMatchedCityPoints(city1HoverPoint, pairings, cityKeys[1], cityKeys[2])

\* a hover on map 1 that matches while another response is on its way and
\* map 2 is hovered without a match
C19_Witness ==
    /\ city1HoverPoint = Seattle5 /\ city2MatchedPoints # <<>>
    /\ city2HoverPoint = Portland10 /\ city1MatchedPoints = <<>>
    /\ inFlight > 0

\* C20: from a mouseout on a map until the next mousemove on it (the span in
\* which the map's lastHoverPos is null) the map's hover point is absent and
\* the other map shows no matched point.
C20_NoMatchesAfterMouseOut ==
    /\ lastHoverPos1 = Null => (city1HoverPoint = Null /\ city2MatchedPoints = <<>>)
    /\ lastHoverPos2 = Null => (city2HoverPoint = Null /\ city1MatchedPoints = <<>>)

\* the cursor is off map 1 while a hover on it would match, and map 2 is
\* hovered with matches shown on map 1
C20_Witness ==
    /\ lastHoverPos1 = Null /\ lastHoverPos2 # Null
    /\ city1MatchedPoints # <<>>
    /\ \E pos \in City1HoverPoints :
          useMatchedCityPoints(pos, pairings, cityKeys[1], cityKeys[2]) # <<>>

\* C22: a failing fetchPairings call empties the pairing set, sets the error
\* message and puts isLoading back to false; pairings of an earlier
\* successful fetch are not kept.
C22_FailedFetchClearsPairings ==
    [][ fetchPairingsFail
            => (pairings' = <<>> /\ error' /\ ~isLoading'
                /\ city1MatchedPoints' = <<>> /\ city2MatchedPoints' = <<>>) ]_vars

\* the failure of the only call in flight, after a response that filled the
\* pairing set to its bound
C22_Witness ==
    /\ error /\ ~isLoading /\ inFlight = 0
    /\ pairings = <<>> /\ fetchedTotal = MaxPairings
    /\ city1HoverPoint # Null /\ city2HoverPoint # Null

----------------------------------------------------------------------------
(* Properties of isLocationPoint *)

\* C17: isLocationPoint accepts a value only if its coordinates field is an
\* array of exactly two finite numbers; NaN, an infinity or another length is
\* rejected.
C17_AcceptsOnlyTwoFiniteNumbers ==
    (pDone /\ pAccepted) =>
        /\ pValue.isArray
        /\ Len(pValue.coordinates) = 2
        /\ \A k \in 1..2 : pValue.coordinates[k].t = "number"
                           /\ pValue.coordinates[k].kind = "finite"

----------------------------------------------------------------------------
(* Properties of the pairings API *)

\* the city keys of a stored pairing whose value isLocationPoint accepts
WellFormedKeys(pairing) ==
    { key \in DOMAIN pairing : key # "createdAt" /\ isLocationPoint(pairing[key]) }

\* C18: the POST handler stores a pairing only if the body has at least two
\* city-keyed entries with valid coordinates, answers 400 to an object body
\* with fewer, and every pairing it stores is accepted by isLocationPoint
\* under at least two of its city keys.
C18_PostStoresOnlyWellFormed ==
    /\ lastStatus = 200 => Cardinality(cityEntries(lastBody.fields)) >= 2
    /\ (lastBody.kind = "object" /\ Cardinality(cityEntries(lastBody.fields)) < 2)
           => lastStatus = 400
    /\ \A id \in DOMAIN kv : Cardinality(WellFormedKeys(kv[id])) >= 2

\* C25: a successful create never overwrites an existing pairing: every POST
\* answered 200 adds one record to those getAllPairings returns.
C25_CreateAddsOneRecord ==
    [][ (POST /\ lastStatus' = 200) =>
            Cardinality(DOMAIN kv') = Cardinality(DOMAIN kv) + 1 ]_vars

----------------------------------------------------------------------------
(* Properties of the hover report *)

\* p and q differ by more than the threshold in latitude or in longitude
FartherThanThreshold(p, q) ==
    \/ p[1] - q[1] > HoverThreshold \/ q[1] - p[1] > HoverThreshold
    \/ p[2] - q[2] > HoverThreshold \/ q[2] - p[2] > HoverThreshold

\* C21: a mousemove is reported iff no hover was reported since the last
\* mouseout or map creation, or it lies more than 0.0001 in latitude or in
\* longitude from the last reported position; so the hover point held is
\* within 0.0001 in both coordinates of the latest mousemove position.
C21_ReportedIffMovedBeyondThreshold ==
    hCursor # Null =>
        /\ hReported <=> (hPrevHoverPos = Null \/ FartherThanThreshold(hCursor, hPrevHoverPos))
        /\ hHoverPoint # Null
        /\ ~FartherThanThreshold(hCursor, hHoverPoint)

\* a mousemove one step away in both coordinates from the reported position,
\* not reported
C21_Witness ==
    /\ hCursor # Null /\ ~hReported /\ hHoverPoint # Null
    /\ hCursor[1] # hHoverPoint[1] /\ hCursor[2] # hHoverPoint[2]

----------------------------------------------------------------------------
(* Properties of PairingControls                                            *)

\* a step that sends a create request
CreateRequestSent == Len(pcInFlight') > Len(pcInFlight)

\* a step in which the server answered a create request with status 200
AnsweredOk ==
    Len(pcInFlight') < Len(pcInFlight) /\ pcOutcome' # "threw" /\ lastStatus' = 200

\* a step in which a create request was answered otherwise, or fetch threw
AnsweredNotOkOrThrew ==
    Len(pcInFlight') < Len(pcInFlight) /\ (pcOutcome' = "threw" \/ lastStatus' # 200)

\* C23: a create request is sent only when both maps have a selected point;
\* on an OK response both selections become null and onPairingCreated is
\* called; on a non-OK response or an exception both selections are left
\* unchanged and onPairingCreated is not called.
C23_PairLocationsOutcomes ==
    [][ /\ (CreateRequestSent => (city1Point' # Null /\ city2Point' # Null))
        /\ (AnsweredOk =>
               (city1Point' = Null /\ city2Point' = Null /\ pcCallbackCalled'))
        /\ (AnsweredNotOkOrThrew =>
               (city1Point' = city1Point /\ city2Point' = city2Point
                /\ ~pcCallbackCalled')) ]_vars

C23_Witness ==
    /\ pcOutcome = "ok" /\ pcCallbackCalled /\ lastStatus = 200
    /\ city1Point = Null /\ city2Point = Null /\ selectionCount >= 2

\* C28: no two create requests are in flight for the same selections.
C28_OneRequestPerSelections ==
    \A i, j \in 1..Len(pcInFlight) :
        i # j => pcInFlight[i].selections # pcInFlight[j].selections

\* C30: every create request in flight carries two city-keyed location
\* entries, and none is answered with a non-OK status.
C30_RequestCarriesTwoCities ==
    /\ \A i \in 1..Len(pcInFlight) :
           Cardinality(cityEntries(withCreatedAt(pcInFlight[i].body.fields))) >= 2
    /\ pcOutcome # "notOk"

----------------------------------------------------------------------------
(* Properties of PairingList                                                *)

\* the displayed entries other than those with the given id, in order
EntriesWithout(list, id) ==
    SelectSeq(list, LAMBDA entry : entry.id # id)

\* C24: the displayed list changes only in a step in which the DELETE request
\* for an id was answered OK, and then loses exactly the entries with that id;
\* a cancelled confirmation, a non-OK response or a thrown request leave the
\* list unchanged and isDeleting false.
C24_DeleteRemovesExactlyThatId ==
    [][ /\ (dlPairings' # dlPairings =>
               (dlOutcome' = "ok" /\ lastStatus' = 200 /\ dlIsDeleting[dlLastId']))
        /\ (handleDeleteOk => dlPairings' = EntriesWithout(dlPairings, dlLastId'))
        /\ (handleDeleteCancel \/ handleDeleteNotOk \/ handleDeleteCatch =>
               (dlPairings' = dlPairings /\ ~dlIsDeleting'[dlLastId'])) ]_vars

C24_Witness ==
    /\ dlOutcome = "ok" /\ Len(dlPairings) = 2
    /\ dlLastId \notin Displayed /\ dlLastId \notin DOMAIN kv
    /\ \E id \in Displayed : dlIsDeleting[id]

----------------------------------------------------------------------------
(* Properties of overlapping fetchPairings calls                            *)

\* C27: once every fetchPairings call has completed, the pairing set holds the
\* outcome of the call that started last, and isLoading is true for as long
\* as any call is in flight.
C27_LastStartedCallWins ==
    /\ (fcPending = {} /\ fcStarted > 0) => fcShown = fcStarted
    /\ fcPending # {} => isLoading

----------------------------------------------------------------------------
(* Properties of a change of the city pair                                  *)

\* C26: a step that changes the city pair leaves the selected points and both
\* hover points null, the pairing set and both matched-point lists empty, and
\* no response written yet; and every pairing held afterwards is one that is
\* well-formed under the keys of the current pair.
C26_CityChangeResetsState ==
    [][ /\ (cityKeys' # cityKeys =>
               /\ city1Point' = Null /\ city2Point' = Null
               /\ city1HoverPoint' = Null /\ city2HoverPoint' = Null
               /\ pairings' = <<>> /\ fcShown' = 0
               /\ city1MatchedPoints' = <<>> /\ city2MatchedPoints' = <<>>)
        /\ \A i \in 1..Len(pairings') :
               /\ isLocationPoint(Prop(pairings'[i], cityKeys'[1]))
               /\ isLocationPoint(Prop(pairings'[i], cityKeys'[2])) ]_vars

C26_Witness ==
    /\ cityKeys = <<"portland", "seattle">> /\ orphaned > 0
    /\ pairings # <<>> /\ city1HoverPoint # Null /\ city1Point # Null

----------------------------------------------------------------------------
(* Properties of the matched markers                                        *)

\* C29: whenever no import started by the matched-points effect is pending,
\* the matched markers on the map are the markers of the current matchedPoints
\* value; with an empty value none is on the map.
C29_MarkersAreCurrent ==
    pendingImports = <<>> => matchedMarkers = matchedPoints

====
